---- MODULE Spec2Model ----
(***************************************************************************)
(* Issue tracker: the issue store (create, update, delete, bulk update,    *)
(* bulk delete) and the CSV importer of backend/main.py and                *)
(* backend/csv_import.py, over the Issue table of backend/model.py.        *)
(*                                                                         *)
(* Conventions.  A Python str is a sequence of one-character strings       *)
(* (<<"a", "b">> is 'ab', <<>> is '').  An Optional value is a set with at *)
(* most one element: None is {} and the value v is {v}.  A request body is *)
(* a function whose DOMAIN is the set of fields the client set, which is   *)
(* what model_dump(exclude_unset=True) yields.                             *)
(***************************************************************************)
EXTENDS Integers, Sequences, FiniteSets, TLC

\* ------------------------------------------------------------------ bounds
\* Requests (and clock ticks) in one run.
MaxSteps == 3
\* Longest CSV file, in lines after the header.
MaxRows == 2

\* ------------------------------------------------- schema length limits
TitleMaxLen == 200
NameMaxLen == 100

\* --------------------------------------------------------------- options
None == {}
Some(v) == {v}
Get(o) == CHOOSE v \in o : TRUE

\* ---------------------------------------------------------------- strings
Whitespace == {" ", "\t", "\n", "\r"}
UpperAlphabet == <<"A","B","C","D","E","F","G","H","I","J","K","L","M",
                   "N","O","P","Q","R","S","T","U","V","W","X","Y","Z">>
LowerAlphabet == <<"a","b","c","d","e","f","g","h","i","j","k","l","m",
                   "n","o","p","q","r","s","t","u","v","w","x","y","z">>

\* str.lower() on one character.
LowerChar(c) ==
    IF \E i \in 1..Len(UpperAlphabet) : UpperAlphabet[i] = c
    THEN LowerAlphabet[CHOOSE i \in 1..Len(UpperAlphabet) : UpperAlphabet[i] = c]
    ELSE c

\* str.lower()
lower(s) == [i \in 1..Len(s) |-> LowerChar(s[i])]

RECURSIVE lstrip(_)
lstrip(s) ==
    IF s = <<>> THEN s
    ELSE IF Head(s) \in Whitespace THEN lstrip(Tail(s)) ELSE s

RECURSIVE rstrip(_)
rstrip(s) ==
    IF s = <<>> THEN s
    ELSE IF s[Len(s)] \in Whitespace THEN rstrip(SubSeq(s, 1, Len(s) - 1)) ELSE s

\* str.strip()
strip(s) == rstrip(lstrip(s))

\* ------------------------------------------------------------------ enums
\* StatusEnum and PriorityEnum members, named by their values.
StatusEnum == {"open", "in_progress", "resolved", "closed"}
PriorityEnum == {"low", "medium", "high", "critical"}

\* ----------------------------------------------------------------- columns
\* The columns a request can write, and those declared nullable=False.
DataFields == {"title", "description", "status", "priority", "assignee", "reporter"}
NotNullFields == {"title", "status", "priority"}

\* --------------------------------------------------------------- the state
VARIABLES
    issues,   \* the issues table: id -> row
    seq,      \* the last id the autoincrement key handed out
    now,      \* the database clock, func.now()
    last,     \* the last request and the response to it
    steps,    \* requests and clock ticks so far
    sessions  \* the update requests in progress, each in its own Session

vars == <<issues, seq, now, last, steps, sessions>>

Ids == DOMAIN issues

\* One more request is handled, from its query to its commit in one piece.
Step ==
    /\ steps < MaxSteps
    /\ steps' = steps + 1
    /\ UNCHANGED sessions

\* A row violates a NOT NULL constraint: the flush raises IntegrityError.
NullViolation(row) == \E f \in NotNullFields : row[f] = None

\* IssueCreate's field constraints (min_length, max_length).
IssueCreateValid(title, assignee, reporter) ==
    /\ Len(title) >= 1
    /\ Len(title) <= TitleMaxLen
    /\ assignee # None => Len(Get(assignee)) <= NameMaxLen
    /\ reporter # None => Len(Get(reporter)) <= NameMaxLen

\* IssueCreate(...).model_dump(): the fields given, the rest at their defaults.
IssueCreate(body) ==
    [title       |-> Some(body.title),
     description |-> IF "description" \in DOMAIN body THEN body.description ELSE None,
     status      |-> IF "status" \in DOMAIN body THEN Some(body.status) ELSE Some("open"),
     priority    |-> IF "priority" \in DOMAIN body THEN Some(body.priority) ELSE Some("medium"),
     assignee    |-> IF "assignee" \in DOMAIN body THEN body.assignee ELSE None,
     reporter    |-> IF "reporter" \in DOMAIN body THEN body.reporter ELSE None]

\* The INSERT with updated_at left to a later statement's clock reading.
Issue_LateStamp(data, id, t) ==
    [id          |-> id,
     title       |-> data.title,
     description |-> data.description,
     status      |-> data.status,
     priority    |-> data.priority,
     assignee    |-> data.assignee,
     reporter    |-> data.reporter,
     created_at  |-> t,
     updated_at  |-> t + 1,
     version     |-> 1]

\* Issue(**data) as the INSERT stores it: the key from the autoincrement
\* sequence, both timestamps from server_default=func.now(), version from
\* default=1.
Issue(data, id, t) ==
    [id          |-> id,
     title       |-> data.title,
     description |-> data.description,
     status      |-> data.status,
     priority    |-> data.priority,
     assignee    |-> data.assignee,
     reporter    |-> data.reporter,
     created_at  |-> t,
     updated_at  |-> t,
     version     |-> 1]

\* The key of the row with the largest key, plus one: a deleted last key
\* is handed out again.
NextId_RowId(table, key) ==
    IF DOMAIN table = {} THEN 1
    ELSE (CHOOSE m \in DOMAIN table : \A i \in DOMAIN table : i <= m) + 1

\* The key the database assigns to a new row: one more than the last key
\* it assigned, whether or not that row is still in the table.
NextId(table, key) == key + 1

\* db.add(row); db.commit()
Insert(table, row) == [i \in DOMAIN table \cup {row.id} |-> IF i = row.id THEN row ELSE table[i]]

\* ------------------------------------------------------------ input domains
S_a == <<"a">>
S_b == <<"b">>
S_al == <<"a", "l">>
S_bo == <<"b", "o">>
S_empty == <<>>
S_space == <<" ">>
S_a_padded == <<" ", "a", " ">>
S_unassigned == <<"u","n","a","s","s","i","g","n","e","d">>

\* Ids a request can name.
RequestIds == {1, 2, 3}

CreateBodies ==
    { [title |-> S_a],
      [title |-> S_a, description |-> Some(S_b), status |-> "resolved",
       priority |-> "high", assignee |-> Some(S_al), reporter |-> Some(S_bo)],
      [title |-> S_space, assignee |-> Some(S_empty)],
      [title |-> S_b, assignee |-> Some(S_unassigned)],
      [title |-> S_empty] }

UpdateFields ==
    { <<>>,
      [title |-> Some(S_b), assignee |-> None],
      [description |-> Some(S_a), status |-> Some("closed"),
       priority |-> Some("low"), reporter |-> Some(S_al)],
      [status |-> None] }

\* The version member of an IssueUpdate body, when set: null or a number.
UpdateVersions == {None, Some(1), Some(2)}

\* IssueUpdate bodies: the fields alone (version unset), or with a version.
UpdateBodies ==
    UpdateFields \cup {f @@ [version |-> v] : f \in UpdateFields, v \in UpdateVersions}

\* Id lists of the bulk requests: duplicates and unknown ids included.
IdLists == {<<>>, <<1>>, <<2>>, <<3>>, <<1, 1>>, <<1, 2>>, <<2, 3>>, <<1, 2, 3>>}

\* IssueBulkUpdate bodies, less issue_ids.
BulkFields ==
    { <<>>,
      [status |-> Some("in_progress"), priority |-> None],
      [priority |-> Some("critical"), assignee |-> Some(S_bo)] }

\* ----------------------------------------------------------------- create
\* POST /issues
create_issue(body) ==
    /\ Step
    /\ IF ~IssueCreateValid(body.title,
                            IssueCreate(body).assignee, IssueCreate(body).reporter)
       THEN /\ last' = [op |-> "create", code |-> 422, body |-> body]
            /\ UNCHANGED <<issues, seq, now>>
       ELSE /\ issues' = Insert(issues, Issue(IssueCreate(body), NextId(issues, seq), now))
            /\ seq' = NextId(issues, seq)
            /\ last' = [op |-> "create", code |-> 201, body |-> body,
                        id |-> NextId(issues, seq)]
            /\ UNCHANGED now

\* IssueUpdate's field constraints; null passes every Optional field.
IssueUpdateValid(body) ==
    /\ ("title" \in DOMAIN body /\ body.title # None) =>
          (Len(Get(body.title)) >= 1 /\ Len(Get(body.title)) <= TitleMaxLen)
    /\ ("assignee" \in DOMAIN body /\ body.assignee # None) =>
          Len(Get(body.assignee)) <= NameMaxLen
    /\ ("reporter" \in DOMAIN body /\ body.reporter # None) =>
          Len(Get(body.reporter)) <= NameMaxLen

\* ----------------------------------------------------------------- update
\* The test, rejecting only a request older than the row.
VersionConflict_OlderOnly(db_issue, body) ==
    /\ "version" \in DOMAIN body
    /\ body.version # None
    /\ db_issue.version > Get(body.version)

\* The optimistic-locking test of update_issue.
VersionConflict(db_issue, body) ==
    /\ "version" \in DOMAIN body
    /\ body.version # None
    /\ db_issue.version # Get(body.version)

\* model_dump(exclude_unset=True, exclude={'version'})
update_data(body) == [f \in DOMAIN body \ {"version"} |-> body[f]]

\* The loop over a dump taken without exclude_unset: the Optional columns
\* the request left unset are written as null.
SetAttrs_Unset(db_issue, data) ==
    [f \in DOMAIN db_issue |->
        IF f \in DOMAIN data THEN data[f]
        ELSE IF f \in {"description", "assignee", "reporter"} THEN None
        ELSE db_issue[f]]

\* for field, value in update_data.items(): setattr(db_issue, field, value)
SetAttrs(db_issue, data) ==
    [f \in DOMAIN db_issue |-> IF f \in DOMAIN data THEN data[f] ELSE db_issue[f]]

\* The increment, skipped for a row whose version was already raised.
IncrementVersion_Once(db_issue) ==
    [db_issue EXCEPT !.version = IF @ = 1 THEN 2 ELSE @]

\* db_issue.version += 1
IncrementVersion(db_issue) == [db_issue EXCEPT !.version = @ + 1]

\* The UPDATE the commit flushes: onupdate=func.now() stamps updated_at.
Flush(db_issue, t) == [db_issue EXCEPT !.updated_at = t]

\* PUT /issues/{issue_id}
update_issue(issue_id, body) ==
    /\ Step
    /\ UNCHANGED <<seq, now>>
    /\ IF ~IssueUpdateValid(body)
       THEN /\ last' = [op |-> "update", code |-> 422, id |-> issue_id, body |-> body]
            /\ UNCHANGED issues
       ELSE IF issue_id \notin Ids
       THEN /\ last' = [op |-> "update", code |-> 404, id |-> issue_id, body |-> body]
            /\ UNCHANGED issues
       ELSE IF VersionConflict(issues[issue_id], body)
       THEN /\ last' = [op |-> "update", code |-> 409, id |-> issue_id, body |-> body,
                        expected |-> Get(body.version),
                        actual |-> issues[issue_id].version]
            /\ UNCHANGED issues
       ELSE LET db_issue == IncrementVersion(SetAttrs(issues[issue_id], update_data(body)))
            IN  IF NullViolation(db_issue)
                THEN /\ last' = [op |-> "update", code |-> 500, id |-> issue_id, body |-> body]
                     /\ UNCHANGED issues
                ELSE /\ issues' = [issues EXCEPT ![issue_id] = Flush(db_issue, now)]
                     /\ last' = [op |-> "update", code |-> 200, id |-> issue_id, body |-> body]

\* ----------------------------------------------------------------- delete
\* A soft delete: the rows stay, marked closed.
Delete_Soft(table, gone) ==
    [i \in DOMAIN table |->
        IF i \in gone THEN [table[i] EXCEPT !.status = Some("closed")] ELSE table[i]]

\* db.delete(row); db.commit()
Delete(table, gone) == [i \in DOMAIN table \ gone |-> table[i]]

\* DELETE /issues/{issue_id}
delete_issue(issue_id) ==
    /\ Step
    /\ UNCHANGED <<seq, now>>
    /\ IF issue_id \notin Ids
       THEN /\ last' = [op |-> "delete", code |-> 404, id |-> issue_id]
            /\ UNCHANGED issues
       ELSE /\ issues' = Delete(issues, {issue_id})
            /\ last' = [op |-> "delete", code |-> 204, id |-> issue_id]

\* ------------------------------------------------------------------- bulk
\* The elements of a list.
Range(list) == {list[i] : i \in DOMAIN list}

\* The query with its filter left out: every row is found.
Matching_All(table, issue_ids) == DOMAIN table

\* db.query(Issue).filter(Issue.id.in_(issue_ids)): the ids of the rows found.
Matching(table, issue_ids) == DOMAIN table \cap Range(issue_ids)

\* .all() with no ORDER BY: the rows found, in an order the database picks.
Orders(S) == {o \in [1..Cardinality(S) -> S] : \A i, j \in 1..Cardinality(S) : o[i] = o[j] => i = j}

\* The loop body with an optimistic check: a row already past version 1 is
\* left as it is.
BulkApply_Checked(issue, body) ==
    IF issue.version # 1 THEN issue
    ELSE [[f \in DOMAIN issue |->
              IF f \in {"status", "priority", "assignee"} /\ f \in DOMAIN body /\ body[f] # None
              THEN body[f] ELSE issue[f]] EXCEPT !.version = @ + 1]

\* The loop body without its version += 1.
BulkApply_KeepVersion(issue, body) ==
    [f \in DOMAIN issue |->
        IF f \in {"status", "priority", "assignee"} /\ f \in DOMAIN body /\ body[f] # None
        THEN body[f] ELSE issue[f]]

\* The loop body of bulk_update_issues on one row.
BulkApply(issue, body) ==
    IncrementVersion(
        [f \in DOMAIN issue |->
            IF f \in {"status", "priority", "assignee"} /\ f \in DOMAIN body /\ body[f] # None
            THEN body[f] ELSE issue[f]])

\* PUT /issues/bulk
bulk_update_issues(issue_ids, body) ==
    /\ Step
    /\ UNCHANGED <<seq, now>>
    /\ IF Matching(issues, issue_ids) = {}
       THEN /\ last' = [op |-> "bulk_update", code |-> 404, issue_ids |-> issue_ids, body |-> body]
            /\ UNCHANGED issues
       ELSE \E found \in Orders(Matching(issues, issue_ids)) :
            /\ issues' = [i \in Ids |->
                            IF i \in Range(found)
                            THEN Flush(BulkApply(issues[i], body), now)
                            ELSE issues[i]]
            /\ last' = [op |-> "bulk_update", code |-> 200, issue_ids |-> issue_ids, body |-> body,
                        updated_count |-> Len(found), updated_ids |-> found]

\* DELETE /issues/bulk
bulk_delete_issues(issue_ids) ==
    /\ Step
    /\ UNCHANGED <<seq, now>>
    /\ IF Matching(issues, issue_ids) = {}
       THEN /\ last' = [op |-> "bulk_delete", code |-> 404, issue_ids |-> issue_ids]
            /\ UNCHANGED issues
       ELSE \E found \in Orders(Matching(issues, issue_ids)) :
            /\ issues' = Delete(issues, Range(found))
            /\ last' = [op |-> "bulk_delete", code |-> 200, issue_ids |-> issue_ids,
                        deleted_count |-> Len(found), deleted_ids |-> found]

\* ------------------------------------------------------------------ reads
\* GET /issues/{issue_id}
get_issue(issue_id) ==
    /\ Step
    /\ UNCHANGED <<issues, seq, now>>
    /\ IF issue_id \notin Ids
       THEN last' = [op |-> "get", code |-> 404, id |-> issue_id]
       ELSE last' = [op |-> "get", code |-> 200, id |-> issue_id,
                     response |-> issues[issue_id]]

\* db.query(Issue).filter(Issue.<column> == value).count()
Count(table, column, value) ==
    Cardinality({i \in DOMAIN table : table[i][column] = value})

\* The distinct non-null assignees: the groups of GROUP BY Issue.assignee.
Assignees(table) ==
    {Get(table[i].assignee) : i \in {j \in DOMAIN table : table[j].assignee # None}}

\* The body of get_issue_stats: by_assignee is the dict of the groups, its
\* 'unassigned' key then set to the count of the rows with no assignee.
IssueStats(table) ==
    [total_issues |-> Cardinality(DOMAIN table),
     by_status    |-> [s \in StatusEnum |-> Count(table, "status", Some(s))],
     by_priority  |-> [p \in PriorityEnum |-> Count(table, "priority", Some(p))],
     by_assignee  |-> [a \in Assignees(table) \cup {S_unassigned} |->
                          IF a = S_unassigned THEN Count(table, "assignee", None)
                          ELSE Count(table, "assignee", Some(a))]]

\* The summary with in_progress_issues counted by the filter of the line
\* above it.
IssueSummary_CopiedFilter(table) ==
    [total_issues       |-> Cardinality(DOMAIN table),
     open_issues        |-> Count(table, "status", Some("open")),
     in_progress_issues |-> Count(table, "status", Some("open")),
     resolved_issues    |-> Count(table, "status", Some("resolved")),
     closed_issues      |-> Count(table, "status", Some("closed")),
     critical_priority  |-> Count(table, "priority", Some("critical")),
     high_priority      |-> Count(table, "priority", Some("high")),
     medium_priority    |-> Count(table, "priority", Some("medium")),
     low_priority       |-> Count(table, "priority", Some("low"))]

\* The body of get_issue_summary.
IssueSummary(table) ==
    [total_issues       |-> Cardinality(DOMAIN table),
     open_issues        |-> Count(table, "status", Some("open")),
     in_progress_issues |-> Count(table, "status", Some("in_progress")),
     resolved_issues    |-> Count(table, "status", Some("resolved")),
     closed_issues      |-> Count(table, "status", Some("closed")),
     critical_priority  |-> Count(table, "priority", Some("critical")),
     high_priority      |-> Count(table, "priority", Some("high")),
     medium_priority    |-> Count(table, "priority", Some("medium")),
     low_priority       |-> Count(table, "priority", Some("low"))]

\* GET /issues/stats
get_issue_stats ==
    /\ Step
    /\ UNCHANGED <<issues, seq, now>>
    /\ last' = [op |-> "stats", code |-> 200, response |-> IssueStats(issues)]

\* GET /issues/summary
get_issue_summary ==
    /\ Step
    /\ UNCHANGED <<issues, seq, now>>
    /\ last' = [op |-> "summary", code |-> 200, response |-> IssueSummary(issues)]

\* -------------------------------------------------------------- CSV import
S_open == <<"o","p","e","n">>
S_in_progress == <<"i","n","_","p","r","o","g","r","e","s","s">>
S_in_progress_sp == <<"i","n"," ","p","r","o","g","r","e","s","s">>
S_resolved == <<"r","e","s","o","l","v","e","d">>
S_closed == <<"c","l","o","s","e","d">>
S_low == <<"l","o","w">>
S_medium == <<"m","e","d","i","u","m">>
S_high == <<"h","i","g","h">>
S_critical == <<"c","r","i","t","i","c","a","l">>

\* The place of a column in the header.
ColumnIndex(header, k) == CHOOSE i \in DOMAIN header : header[i] = k

\* csv.DictReader on one line: the cells under the header's names; a line
\* shorter than the header leaves the rest at restval, which is None; cells
\* beyond the header go under a key no one reads.
DictRow(header, cells) ==
    [k \in Range(header) |->
        IF ColumnIndex(header, k) <= Len(cells)
        THEN Some(cells[ColumnIndex(header, k)])
        ELSE None]

IsDataLine(cells) == cells # <<>>

\* csv.DictReader(csv_file): one dict per line, blank lines skipped.
DictReader(file) ==
    LET kept == SelectSeq(file.lines, IsDataLine)
    IN  [i \in 1..Len(kept) |-> DictRow(file.header, kept[i])]

\* row.get(key, default)
RowGet(row, key, default) == IF key \in DOMAIN row THEN row[key] ELSE Some(default)

\* The status branch of parse_csv_row, on the stripped, lowered text.
ParseStatus(status_str) ==
    IF status_str = S_in_progress_sp \/ status_str = S_in_progress THEN "in_progress"
    ELSE IF status_str = S_open THEN "open"
    ELSE IF status_str = S_resolved THEN "resolved"
    ELSE IF status_str = S_closed THEN "closed"
    ELSE "open"

\* The priority branch of parse_csv_row, on the stripped, lowered text.
ParsePriority(priority_str) ==
    IF priority_str = S_low THEN "low"
    ELSE IF priority_str = S_medium THEN "medium"
    ELSE IF priority_str = S_high THEN "high"
    ELSE IF priority_str = S_critical THEN "critical"
    ELSE "medium"

\* value.strip() or None
StripOrNone(value) == IF strip(value) = <<>> THEN None ELSE Some(strip(value))

E_TitleRequired == "Title is required and cannot be empty"
E_NoneStrip == "Parsing error: 'NoneType' object has no attribute 'strip'"
E_Validation == "Parsing error: validation error for IssueCreate"
E_Database == "Database error: commit failed"

\* parse_csv_row: (issue, error), one of them None.  A cell that is None
\* raises AttributeError at its .strip(); IssueCreate(...) raises
\* ValidationError on a field constraint; both land in the except clause.
parse_csv_row(row, row_number) ==
    LET status_cell   == RowGet(row, "status", S_open)
        priority_cell == RowGet(row, "priority", S_medium)
        title_cell    == RowGet(row, "title", S_empty)
        description_cell == RowGet(row, "description", S_empty)
        assignee_cell == RowGet(row, "assignee", S_empty)
        reporter_cell == RowGet(row, "reporter", S_empty)
    IN  IF None \in {status_cell, priority_cell, title_cell,
                     description_cell, assignee_cell, reporter_cell}
        THEN [issue |-> None,
              error |-> Some([row |-> row_number, error |-> E_NoneStrip])]
        ELSE
        LET status   == ParseStatus(lower(strip(Get(status_cell))))
            priority == ParsePriority(lower(strip(Get(priority_cell))))
            title    == strip(Get(title_cell))
            assignee == StripOrNone(Get(assignee_cell))
            reporter == StripOrNone(Get(reporter_cell))
            issue    == IssueCreate([title |-> title,
                                     description |-> StripOrNone(Get(description_cell)),
                                     status |-> status,
                                     priority |-> priority,
                                     assignee |-> assignee,
                                     reporter |-> reporter])
        IN  IF ~IssueCreateValid(title, assignee, reporter)
            THEN [issue |-> None,
                  error |-> Some([row |-> row_number, error |-> E_Validation])]
            ELSE IF title = <<>>
            THEN [issue |-> None,
                  error |-> Some([row |-> row_number, error |-> E_TitleRequired])]
            ELSE [issue |-> Some(issue), error |-> None]

\* The failure counted, its error not kept.
CountFailure_Silent(acc, error) ==
    [acc EXCEPT !.failed = @ + 1]

\* failed += 1; errors.append(error)
CountFailure(acc, error) ==
    [acc EXCEPT !.failed = @ + 1, !.errors = Append(@, error)]

\* db.add(db_issue); db.commit(); successful += 1
CommitRow(acc, issue, t) ==
    [acc EXCEPT !.table = Insert(@, Issue(issue, NextId(acc.table, acc.key), t)),
                !.key = NextId(acc.table, acc.key),
                !.successful = @ + 1]

\* A rollback that also undoes the row committed last.
Rollback_Earlier(acc) ==
    [acc EXCEPT !.table = [i \in DOMAIN @ \ {acc.key} |-> @[i]]]

\* db.rollback(): the row just added is dropped, nothing committed is.
Rollback(acc) == acc

\* The row the loop turns to after row i, failed or not.
NextRow(rows, i) == i + 1

\* The loop of import_issues_from_csv from rows[i] on: acc holds the table,
\* the key sequence and the four counters; commit_fails holds the row
\* numbers whose db.commit() raises.
RECURSIVE ImportLoop(_, _, _, _, _)
ImportLoop(rows, i, acc, t, commit_fails) ==
    IF i > Len(rows) THEN acc
    ELSE
    LET row_number == i + 1
        parsed  == parse_csv_row(rows[i], row_number)
        counted == [acc EXCEPT !.total_rows = @ + 1]
    IN  IF parsed.error # None
        THEN ImportLoop(rows, NextRow(rows, i),
                        CountFailure(counted, Get(parsed.error)),
                        t, commit_fails)
        ELSE IF row_number \in commit_fails
        THEN ImportLoop(rows, NextRow(rows, i),
                        CountFailure(Rollback(counted),
                                     [row |-> row_number, error |-> E_Database]),
                        t, commit_fails)
        ELSE ImportLoop(rows, NextRow(rows, i),
                        CommitRow(counted, Get(parsed.issue), t),
                        t, commit_fails)

\* import_issues_from_csv(file_content, db)
import_issues_from_csv(file, table, key, t, commit_fails) ==
    ImportLoop(DictReader(file), 1,
               [table |-> table, key |-> key,
                total_rows |-> 0, successful |-> 0, failed |-> 0, errors |-> <<>>],
               t, commit_fails)

\* POST /issues/import, from the decoding of the upload on.
import_csv(file, commit_fails) ==
    /\ Step
    /\ UNCHANGED now
    /\ IF ~file.utf8
       THEN /\ last' = [op |-> "import", code |-> 500, file |-> file,
                        commit_fails |-> commit_fails]
            /\ UNCHANGED <<issues, seq>>
       ELSE LET done == import_issues_from_csv(file, issues, seq, now, commit_fails)
            IN  /\ issues' = done.table
                /\ seq' = done.key
                /\ last' = [op |-> "import", code |-> 200, file |-> file,
                            commit_fails |-> commit_fails,
                            result |-> [total_rows |-> done.total_rows,
                                        successful |-> done.successful,
                                        failed |-> done.failed,
                                        errors |-> done.errors]]

\* Uploads of the store's runs: a header, the lines after it, and whether
\* the bytes decode as UTF-8.
H_full == <<"title", "description", "status", "priority", "assignee", "reporter">>
H_short == <<"title", "status", "priority">>
H_title == <<"title">>
H_notitle == <<"description", "status">>

Files ==
    { [utf8 |-> TRUE, header |-> H_title, lines |-> << <<S_empty>>, <<S_b>> >>],
      [utf8 |-> TRUE, header |-> H_short, lines |-> << <<S_a, S_closed, S_high>>, <<S_b>> >>],
      [utf8 |-> FALSE, header |-> <<>>, lines |-> <<>>] }

\* The row numbers a commit can fail at.
CommitFails(file) ==
    SUBSET {i + 1 : i \in 1..Len(SelectSeq(file.lines, IsDataLine))}

\* Cells of the importer's runs.
S_InProgress_padded == <<" ","I","n"," ","P","r","o","g","r","e","s","s"," ">>
S_Resolved == <<"R","e","s","o","l","v","e","d">>
S_HIGH == <<"H","I","G","H">>
S_bogus == <<"w","o","n","t","f","i","x">>
\* A title one character longer than the schema allows.
S_long == [i \in 1..(TitleMaxLen + 1) |-> "x"]

\* Lines of the importer's runs: a full line in mixed case, a padded line
\* with defaults, an empty title, a blank title, a short line, a blank line,
\* a three-cell line and an over-long title.
Lines ==
    { <<S_a, S_b, S_InProgress_padded, S_HIGH, S_al, S_bo>>,
      <<S_a_padded, S_empty, S_bogus, S_empty, S_space, S_empty>>,
      <<S_empty, S_b, S_open, S_low, S_empty, S_empty>>,
      <<S_space, S_Resolved, S_low>>,
      <<S_a>>,
      <<>>,
      <<S_b, S_closed, S_critical>>,
      <<S_long>> }

Headers == {H_full, H_short, H_title, H_notitle}

\* Uploads of the importer's runs: every header over every file of at most
\* MaxRows lines.
CsvFiles ==
    { [utf8 |-> TRUE, header |-> h, lines |-> l] :
        h \in Headers, l \in UNION {[1..n -> Lines] : n \in 0..MaxRows} }

\* ------------------------------------------------------------------- list
\* column.ilike(pattern) on a non-null text: % matches any run of
\* characters, _ any one character, every other character itself, letters
\* without regard to case.
RECURSIVE Like(_, _)
Like(pattern, text) ==
    IF pattern = <<>> THEN text = <<>>
    ELSE IF Head(pattern) = "%"
    THEN Like(Tail(pattern), text) \/ (text # <<>> /\ Like(pattern, Tail(text)))
    ELSE /\ text # <<>>
         /\ Head(pattern) = "_" \/ LowerChar(Head(pattern)) = LowerChar(Head(text))
         /\ Like(Tail(pattern), Tail(text))

\* column.ilike(pattern): NULL, hence not true, on a null column.
ilike(value, pattern) == value # None /\ Like(pattern, Get(value))

\* f"%{search}%"
search_pattern(search) == <<"%">> \o search \o <<"%">>

\* A query parameter is truthy: given, and not the empty string.
Truthy(param) == param # None /\ Get(param) # <<>>

\* The filters of list_issues on one row; status and priority are enum
\* members, truthy whenever given.
ListFilter(row, q) ==
    /\ q.status # None => row.status = q.status
    /\ q.priority # None => row.priority = q.priority
    /\ Truthy(q.assignee) => row.assignee = q.assignee
    /\ Truthy(q.search) =>
          \/ ilike(row.title, search_pattern(Get(q.search)))
          \/ ilike(row.description, search_pattern(Get(q.search)))

\* The filters of export_csv on one row: the handler declares no search
\* parameter, and a query parameter it does not declare is dropped.
ExportFilter(row, q) ==
    /\ q.status # None => row.status = q.status
    /\ q.priority # None => row.priority = q.priority
    /\ Truthy(q.assignee) => row.assignee = q.assignee

\* order_by(Issue.created_at.desc()): the orders of the rows S the database
\* may return; rows of equal created_at come in an order it picks.
OrderBy(table, S) ==
    {o \in Orders(S) :
        \A i, j \in 1..Cardinality(S) :
            i < j => table[o[i]].created_at >= table[o[j]].created_at}

\* .offset(skip).limit(limit)
OffsetLimit(o, skip, limit) ==
    SubSeq(o, skip + 1, IF skip + limit < Len(o) THEN skip + limit ELSE Len(o))

\* GET /issues
list_issues(q) ==
    /\ Step
    /\ UNCHANGED <<issues, seq, now>>
    /\ \E o \in OrderBy(issues, {i \in Ids : ListFilter(issues[i], q)}) :
          last' = [op |-> "list", code |-> 200, query |-> q,
                   response |-> [k \in DOMAIN OffsetLimit(o, q.skip, q.limit) |->
                                    issues[OffsetLimit(o, q.skip, q.limit)[k]]]]

\* ----------------------------------------------------------------- export
Digits == <<"0", "1", "2", "3", "4", "5", "6", "7", "8", "9">>

\* str(n) of a natural number.
RECURSIVE str(_)
str(n) == IF n < 10 THEN <<Digits[n + 1]>> ELSE str(n \div 10) \o <<Digits[(n % 10) + 1]>>

\* datetime.isoformat(), the reading of the clock t written out.
isoformat(t) == <<"T">> \o str(t)

\* The .value of an enum member, as text.
EnumValue(member) ==
    CASE member = "open" -> S_open
      [] member = "in_progress" -> S_in_progress
      [] member = "resolved" -> S_resolved
      [] member = "closed" -> S_closed
      [] member = "low" -> S_low
      [] member = "medium" -> S_medium
      [] member = "high" -> S_high
      [] member = "critical" -> S_critical

\* value or ''
OrEmpty(value) == IF value = None THEN <<>> ELSE Get(value)

H_export == <<"id", "title", "description", "status", "priority", "assignee",
              "reporter", "created_at", "updated_at">>

\* The dict writer.writerow is given for one issue, laid out under fieldnames.
ExportRow(issue) ==
    <<str(issue.id), Get(issue.title), OrEmpty(issue.description),
      EnumValue(Get(issue.status)), EnumValue(Get(issue.priority)),
      OrEmpty(issue.assignee), OrEmpty(issue.reporter),
      isoformat(issue.created_at), isoformat(issue.updated_at)>>

\* export_issues_to_csv(issues): the header and one line per issue.
export_issues_to_csv(rows) ==
    [utf8 |-> TRUE, header |-> H_export,
     lines |-> [k \in DOMAIN rows |-> ExportRow(rows[k])]]

\* GET /issues/export
export_csv(q) ==
    /\ Step
    /\ UNCHANGED <<issues, seq, now>>
    /\ \E o \in OrderBy(issues, {i \in Ids : ExportFilter(issues[i], q)}) :
          last' = [op |-> "export", code |-> 200, query |-> q,
                   response |-> export_issues_to_csv([k \in DOMAIN o |-> issues[o[k]]])]

\* Titles, filters and windows of the query runs.
S_B == <<"B">>
S_underscore == <<"_">>

QueryBodies ==
    { [title |-> S_a],
      [title |-> S_B, description |-> Some(S_a), status |-> "resolved",
       priority |-> "high", assignee |-> Some(S_al)],
      [title |-> S_a, description |-> Some(S_bo), assignee |-> Some(S_empty)] }

\* The filters of a list or export request.
Filters ==
    { [status |-> None, priority |-> None, assignee |-> None, search |-> None],
      [status |-> Some("resolved"), priority |-> None, assignee |-> None, search |-> None],
      [status |-> None, priority |-> Some("high"), assignee |-> Some(S_al), search |-> None],
      [status |-> None, priority |-> None, assignee |-> Some(S_empty), search |-> Some(S_empty)],
      [status |-> Some("open"), priority |-> None, assignee |-> None, search |-> Some(S_b)],
      [status |-> None, priority |-> None, assignee |-> None, search |-> Some(S_underscore)] }

\* skip and limit of a list request: the defaults, and two pages of one.
DefaultSkip == 0
DefaultLimit == 100
Windows == {<<DefaultSkip, DefaultLimit>>, <<0, 1>>, <<1, 1>>}

ListQueries == {f @@ [skip |-> w[1], limit |-> w[2]] : f \in Filters, w \in Windows}

\* The database clock advances between requests.
Tick ==
    /\ Step
    /\ now' = now + 1
    /\ UNCHANGED <<issues, seq, last>>

Init ==
    /\ issues = <<>>
    /\ seq = 0
    /\ now = 0
    /\ last = [op |-> "none", code |-> 0]
    /\ steps = 0
    /\ sessions = <<>>

Next ==
    \/ \E body \in CreateBodies : create_issue(body)
    \/ \E id \in RequestIds, body \in UpdateBodies : update_issue(id, body)
    \/ \E id \in RequestIds : delete_issue(id)
    \/ \E ids \in IdLists, body \in BulkFields : bulk_update_issues(ids, body)
    \/ \E ids \in IdLists : bulk_delete_issues(ids)
    \/ \E file \in Files : \E commit_fails \in CommitFails(file) :
          import_csv(file, commit_fails)
    \/ \E id \in RequestIds : get_issue(id)
    \/ get_issue_stats
    \/ get_issue_summary
    \/ \E f \in Filters : list_issues(f @@ [skip |-> DefaultSkip, limit |-> DefaultLimit])
    \/ \E f \in Filters : export_csv(f)
    \/ Tick

Spec == Init /\ [][Next]_vars

\* The importer alone: the last request of a run is an upload, into an empty
\* table or into one an earlier create left a row in.
InitImport ==
    /\ \/ /\ issues = <<>>
          /\ seq = 0
          /\ last = [op |-> "none", code |-> 0]
       \/ /\ issues = Insert(<<>>, Issue(IssueCreate([title |-> S_a]), 1, 0))
          /\ seq = 1
          /\ last = [op |-> "create", code |-> 201, body |-> [title |-> S_a], id |-> 1]
    /\ now = seq
    /\ steps = MaxSteps - 1
    /\ sessions = <<>>

NextImport ==
    /\ steps < MaxSteps
    /\ \E file \in CsvFiles : \E commit_fails \in CommitFails(file) :
          import_csv(file, commit_fails)

ImportSpec == InitImport /\ [][NextImport]_vars

\* Queries alone: the last two requests of a run are reads, of a table two
\* earlier creates left two records in, within the same second or not.
InitQuery ==
    /\ \E b1 \in QueryBodies, b2 \in QueryBodies, t \in {0, 1} :
          /\ issues = Insert(Insert(<<>>, Issue(IssueCreate(b1), 1, 0)),
                             Issue(IssueCreate(b2), 2, t))
          /\ now = t
          /\ last = [op |-> "create", code |-> 201, body |-> b2, id |-> 2]
    /\ seq = 2
    /\ steps = MaxSteps - 2
    /\ sessions = <<>>

NextQuery ==
    /\ steps < MaxSteps
    /\ \/ \E q \in ListQueries : list_issues(q)
       \/ \E q \in Filters : export_csv(q)

QuerySpec == InitQuery /\ [][NextQuery]_vars

\* ------------------------------------------------- updates in progress
\* update_issue step by step, for requests served at the same time, each
\* with the Session get_db hands it.  A session is at "query" (about to
\* look the row up), "check" (the row loaded), "write" (the version test
\* passed) or "done".

\* The columns the flush writes: those setattr gave a value other than the
\* loaded one, and version; onupdate adds updated_at.
Dirty(loaded, data) == {f \in DOMAIN data : data[f] # loaded[f]} \cup {"version", "updated_at"}

\* UPDATE issues SET <dirty columns> WHERE id = ?: the other columns keep
\* what the table holds now.
WriteBack(stored, db_issue, dirty) ==
    [f \in DOMAIN stored |-> IF f \in dirty THEN db_issue[f] ELSE stored[f]]

\* Lines 314-316: the row is loaded into the session, or the request ends.
Query(s) ==
    /\ sessions[s].pc = "query"
    /\ UNCHANGED <<issues, seq, now, steps>>
    /\ IF sessions[s].id \notin Ids
       THEN /\ sessions' = [sessions EXCEPT ![s].pc = "done", ![s].code = 404]
            /\ last' = [op |-> "update", code |-> 404, id |-> sessions[s].id,
                        body |-> sessions[s].body]
       ELSE /\ sessions' = [sessions EXCEPT ![s].pc = "check",
                                            ![s].db_issue = Some(issues[sessions[s].id])]
            /\ UNCHANGED last

\* Lines 319-324: the version test, on the row as the session loaded it.
Check(s) ==
    /\ sessions[s].pc = "check"
    /\ UNCHANGED <<issues, seq, now, steps>>
    /\ IF VersionConflict(Get(sessions[s].db_issue), sessions[s].body)
       THEN /\ sessions' = [sessions EXCEPT ![s].pc = "done", ![s].code = 409]
            /\ last' = [op |-> "update", code |-> 409, id |-> sessions[s].id,
                        body |-> sessions[s].body,
                        expected |-> Get(sessions[s].body.version),
                        actual |-> Get(sessions[s].db_issue).version]
       ELSE /\ sessions' = [sessions EXCEPT ![s].pc = "write"]
            /\ UNCHANGED last

\* Lines 327-335: the fields set and the version raised on the loaded row,
\* and the commit; the UPDATE finds no row if it was deleted meanwhile.
Commit(s) ==
    /\ sessions[s].pc = "write"
    /\ UNCHANGED <<seq, now, steps>>
    /\ LET id == sessions[s].id
           loaded == Get(sessions[s].db_issue)
           data == update_data(sessions[s].body)
           db_issue == Flush(IncrementVersion(SetAttrs(loaded, data)), now)
       IN  IF id \notin Ids \/ NullViolation(db_issue)
           THEN /\ sessions' = [sessions EXCEPT ![s].pc = "done", ![s].code = 500]
                /\ last' = [op |-> "update", code |-> 500, id |-> id,
                            body |-> sessions[s].body]
                /\ UNCHANGED issues
           ELSE /\ issues' = [issues EXCEPT
                                 ![id] = WriteBack(@, db_issue, Dirty(loaded, data))]
                /\ sessions' = [sessions EXCEPT ![s].pc = "done", ![s].code = 200]
                /\ last' = [op |-> "update", code |-> 200, id |-> id,
                            body |-> sessions[s].body]

\* The requests of the concurrent runs.
SessionNames == {"A", "B"}

ConcurrentBodies ==
    { [title |-> Some(S_b), version |-> Some(1)],
      [title |-> Some(S_al), priority |-> Some("high"), version |-> Some(1)],
      [description |-> Some(S_bo), version |-> Some(1)],
      [status |-> Some("closed"), version |-> Some(2)],
      [assignee |-> Some(S_al)] }

\* Two update requests have arrived; the table holds record 1, at version
\* 1, and perhaps record 2.
InitConcurrent ==
    /\ \/ issues = Insert(<<>>, Issue(IssueCreate([title |-> S_a]), 1, 0))
       \/ issues = Insert(Insert(<<>>, Issue(IssueCreate([title |-> S_a]), 1, 0)),
                          Issue(IssueCreate([title |-> S_b]), 2, 0))
    /\ seq = 2
    /\ now = 1
    /\ last = [op |-> "none", code |-> 0]
    /\ steps = 0
    /\ \E ids \in [SessionNames -> {1, 2}], bodies \in [SessionNames -> ConcurrentBodies] :
          sessions = [s \in SessionNames |->
                         [pc |-> "query", id |-> ids[s], body |-> bodies[s],
                          db_issue |-> None, code |-> 0]]

NextConcurrent ==
    \E s \in SessionNames : Query(s) \/ Check(s) \/ Commit(s)

ConcurrentSpec == InitConcurrent /\ [][NextConcurrent]_vars
\* ------------------------------------------------------------------ claims
\* This step handles a request of kind op (and is no clock tick).
RequestStep(op) == steps' = steps + 1 /\ now' = now /\ last'.op = op

\* The request's expectedVersion is set and differs from the row's version.
Stale(body, row) ==
    /\ "version" \in DOMAIN body
    /\ body.version # None
    /\ Get(body.version) # row.version

\* C1: an update of an existing record whose expectedVersion differs from
\* the stored version fails with VersionConflict, reports the expected and
\* the actual version, and leaves the table, hence every field of the
\* record, as it was, whatever fields the request carried.
C1_StaleUpdateConflict ==
    [][ (/\ RequestStep("update")
         /\ last'.code # 422
         /\ last'.id \in Ids
         /\ Stale(last'.body, issues[last'.id]))
        => (/\ last'.code = 409
            /\ last'.expected = Get(last'.body.version)
            /\ last'.actual = issues[last'.id].version
            /\ issues' = issues) ]_vars

\* C1 witness: a request carrying fields and the version 1, against a record
\* an earlier update took to version 2, was answered 409.
C1_Witness ==
    /\ last.op = "update"
    /\ last.code = 409
    /\ last.expected = 1
    /\ last.actual = 2
    /\ issues[last.id].version = 2
    /\ "title" \in DOMAIN last.body

\* C2: a successful update takes the record's version to the previous
\* version + 1; a successful bulkUpdate takes every matched record's version
\* to its previous version + 1, once, also for an id named twice and for a
\* request with no field; no other step changes the version of a record.
C2_VersionPlusOne ==
    [][ /\ \A i \in Ids \cap DOMAIN issues' :
              issues'[i].version # issues[i].version =>
                  \/ RequestStep("update") /\ last'.code = 200 /\ i = last'.id
                  \/ RequestStep("bulk_update") /\ last'.code = 200
                        /\ i \in Range(last'.issue_ids)
        /\ (RequestStep("update") /\ last'.code = 200) =>
              /\ last'.id \in Ids \cap DOMAIN issues'
              /\ issues'[last'.id].version = issues[last'.id].version + 1
        /\ (RequestStep("bulk_update") /\ last'.code = 200) =>
              \A i \in Ids \cap Range(last'.issue_ids) :
                  /\ i \in DOMAIN issues'
                  /\ issues'[i].version = issues[i].version + 1 ]_vars

\* C2 witness: a bulkUpdate naming record 1 twice and carrying no field took
\* it from version 2 to version 3.
C2_Witness ==
    /\ last.op = "bulk_update"
    /\ last.code = 200
    /\ last.issue_ids = <<1, 1>>
    /\ DOMAIN last.body = {}
    /\ issues[1].version = 3

\* The columns a bulkUpdate body gives a value to.
BulkGiven(body) == {f \in {"status", "priority", "assignee"} : f \in DOMAIN body /\ body[f] # None}

\* C3: a successful update leaves id, created_at and every data column the
\* request did not supply as they were, and every other record untouched; a
\* successful bulkUpdate leaves title, description, reporter, id and
\* created_at of every record as they were, changes status, priority and
\* assignee only where the request gives a non-null value, and leaves every
\* record outside the id list untouched.
C3_OnlySuppliedFieldsChange ==
    [][ /\ (RequestStep("update") /\ last'.code = 200) =>
              /\ DOMAIN issues' = Ids
              /\ \A i \in Ids \ {last'.id} : issues'[i] = issues[i]
              /\ \A f \in ({"id", "created_at"} \cup DataFields) \ DOMAIN last'.body :
                    issues'[last'.id][f] = issues[last'.id][f]
        /\ (RequestStep("bulk_update") /\ last'.code = 200) =>
              /\ DOMAIN issues' = Ids
              /\ \A i \in Ids \ Range(last'.issue_ids) : issues'[i] = issues[i]
              /\ \A i \in Ids :
                    \A f \in ({"id", "created_at"} \cup DataFields) \ BulkGiven(last'.body) :
                        issues'[i][f] = issues[i][f] ]_vars

\* C3 witness: an update that supplied title and assignee only succeeded on
\* a record whose description, status, priority and reporter are not the
\* defaults.
C3_Witness ==
    /\ last.op = "update"
    /\ last.code = 200
    /\ DOMAIN last.body = {"title", "assignee"}
    /\ issues[last.id].title = Some(S_b)
    /\ issues[last.id].description = Some(S_b)
    /\ issues[last.id].status = Some("resolved")
    /\ issues[last.id].priority = Some("high")
    /\ issues[last.id].reporter = Some(S_bo)

\* C4: a record that a create or an import adds has version 1 and
\* created_at = updated_at, and status open and priority medium where the
\* request (the create body, the CSV header) supplies none; a create
\* answered 201 adds the record it names; no other step adds a record.
C4_FreshRecord ==
    [][ /\ \A i \in DOMAIN issues' \ Ids :
              /\ RequestStep("create") \/ RequestStep("import")
              /\ issues'[i].version = 1
              /\ issues'[i].created_at = issues'[i].updated_at
              /\ issues'[i].created_at = now
              /\ RequestStep("create") =>
                    /\ "status" \notin DOMAIN last'.body => issues'[i].status = Some("open")
                    /\ "priority" \notin DOMAIN last'.body => issues'[i].priority = Some("medium")
              /\ RequestStep("import") =>
                    /\ "status" \notin Range(last'.file.header) => issues'[i].status = Some("open")
                    /\ "priority" \notin Range(last'.file.header) => issues'[i].priority = Some("medium")
        /\ (RequestStep("create") /\ last'.code = 201) => last'.id \in DOMAIN issues' \ Ids ]_vars

\* C4 witness: after the clock moved, an import whose header has no status
\* and no priority column added a record, which is at version 1 with both
\* timestamps at the clock's reading and the two defaults.
C4_Witness ==
    /\ last.op = "import"
    /\ last.code = 200
    /\ last.file.header = H_title
    /\ last.result.successful = 1
    /\ now = 1
    /\ \E i \in Ids :
          /\ issues[i].created_at = 1
          /\ issues[i].updated_at = 1
          /\ issues[i].version = 1
          /\ issues[i].status = Some("open")
          /\ issues[i].priority = Some("medium")

\* The lines of a file that hold a record (the reader skips blank lines).
DataLines(file) == SelectSeq(file.lines, IsDataLine)

\* The line has a cell under column k, or the header has no column k.
CellGiven(header, cells, k) ==
    k \notin Range(header) \/ ColumnIndex(header, k) <= Len(cells)

\* The line's title is empty after trimming, or the header has no title.
TitleEmpty(header, cells) ==
    \/ "title" \notin Range(header)
    \/ /\ ColumnIndex(header, "title") <= Len(cells)
       /\ strip(cells[ColumnIndex(header, "title")]) = <<>>

\* The entries of an error list for row number n.
ErrorsOf(errors, n) == {k \in DOMAIN errors : errors[k].row = n}

\* C5: for every data row whose title is empty after trimming, or whose
\* title column is missing, the import result holds exactly one error for
\* the row's number (the first data row being row 2), and it is
\* "Title is required and cannot be empty".
C5_EmptyTitleError ==
    (last.op = "import" /\ last.code = 200) =>
        \A i \in DOMAIN DataLines(last.file) :
            TitleEmpty(last.file.header, DataLines(last.file)[i]) =>
                /\ Cardinality(ErrorsOf(last.result.errors, i + 1)) = 1
                /\ \A k \in ErrorsOf(last.result.errors, i + 1) :
                      last.result.errors[k].error = E_TitleRequired

\* C6: an import that returns a result has total_rows = successful + failed,
\* total_rows the number of data rows of the file, one error per failed row,
\* the errors' row numbers ascending and among the file's row numbers, and
\* successful the number of records it added, the records that were there
\* before left as they were.
C6_ImportCounts ==
    [][ (RequestStep("import") /\ last'.code = 200) =>
          LET r == last'.result
              n == Len(DataLines(last'.file))
          IN  /\ r.total_rows = r.successful + r.failed
              /\ r.total_rows = n
              /\ Len(r.errors) = r.failed
              /\ \A k \in DOMAIN r.errors :
                    /\ r.errors[k].row \in 2..(n + 1)
                    /\ k > 1 => r.errors[k - 1].row < r.errors[k].row
              /\ Cardinality(DOMAIN issues' \ Ids) = r.successful
              /\ \A i \in Ids : i \in DOMAIN issues' /\ issues'[i] = issues[i] ]_vars

\* C6 witness: of a two-row file the first row failed in parsing and the
\* second was stored.
C6_Witness ==
    /\ last.op = "import"
    /\ last.code = 200
    /\ last.result.total_rows = 2
    /\ last.result.successful = 1
    /\ last.result.failed = 1
    /\ last.result.errors[1].row = 2
    /\ last.result.errors[1].error # E_Database
    /\ Cardinality(Ids) = 2

\* Row i of the file imported alone, into an empty table: the same header,
\* the one line, and the commit failing if it fails for row i in the batch.
Alone(file, i, commit_fails) ==
    import_issues_from_csv([file EXCEPT !.lines = <<DataLines(file)[i]>>], <<>>, 0, 0,
                           IF i + 1 \in commit_fails THEN {2} ELSE {})

\* The file with its lines in the opposite order, and the commit failures
\* moved with their rows.
Reversed(file) ==
    [file EXCEPT !.lines = [i \in 1..Len(DataLines(file)) |->
                               DataLines(file)[Len(DataLines(file)) + 1 - i]]]

ReversedFails(file, commit_fails) ==
    {Len(DataLines(file)) + 3 - n : n \in commit_fails}

\* C7: in an import every row fares as it fares imported alone: it is
\* stored, with the same data, exactly if it is stored alone, and fails,
\* with the same error, exactly if it fails alone; the records stored are
\* those of the rows that succeed alone, in row order; the records present
\* before are untouched; and the file with its rows in the opposite order
\* gives the same successful and failed counts.
C7_RowsIndependent ==
    [][ (RequestStep("import") /\ last'.code = 200) =>
          LET file == last'.file
              fails == last'.commit_fails
              r == last'.result
              n == Len(DataLines(file))
              alone == [i \in 1..n |-> Alone(file, i, fails)]
              Ok(i) == alone[i].successful = 1
              oks == SelectSeq([i \in 1..n |-> i], Ok)
              back == import_issues_from_csv(Reversed(file), issues, seq, now,
                                             ReversedFails(file, fails))
          IN  /\ r.successful = Len(oks)
              /\ r.failed = n - Len(oks)
              /\ {r.errors[k].row : k \in DOMAIN r.errors} = {i + 1 : i \in 1..n} \ {oks[j] + 1 : j \in DOMAIN oks}
              /\ \A k \in DOMAIN r.errors :
                    r.errors[k].error = alone[r.errors[k].row - 1].errors[1].error
              /\ DOMAIN issues' = Ids \cup {seq + j : j \in DOMAIN oks}
              /\ \A j \in DOMAIN oks : \A f \in DataFields :
                    issues'[seq + j][f] = alone[oks[j]].table[1][f]
              /\ \A i \in Ids : issues'[i] = issues[i]
              /\ back.successful = r.successful
              /\ back.failed = r.failed ]_vars

\* C7 witness: into a table holding a record, the first row of a file was
\* stored and the second failed at its commit; both records are there.
C7_Witness ==
    /\ last.op = "import"
    /\ last.code = 200
    /\ last.result.successful = 1
    /\ last.result.failed = 1
    /\ last.result.errors[1] = [row |-> 3, error |-> E_Database]
    /\ Ids = {1, 2}

\* C8: every stored status and priority is canonical, and no data row with
\* a non-empty title (its description, assignee and reporter cells in place)
\* fails in parsing, whatever its status and priority cells hold, absent
\* from the row included.
C8_StatusPriorityNeverFail ==
    /\ \A i \in Ids : Get(issues[i].status) \in StatusEnum /\ Get(issues[i].priority) \in PriorityEnum
    /\ (last.op = "import" /\ last.code = 200) =>
          \A i \in DOMAIN DataLines(last.file) :
              LET cells == DataLines(last.file)[i]
              IN  (/\ ~TitleEmpty(last.file.header, cells)
                   /\ CellGiven(last.file.header, cells, "title")
                   /\ CellGiven(last.file.header, cells, "description")
                   /\ CellGiven(last.file.header, cells, "assignee")
                   /\ CellGiven(last.file.header, cells, "reporter"))
                  => \A k \in ErrorsOf(last.result.errors, i + 1) :
                        last.result.errors[k].error = E_Database

\* C9: bulkDelete removes exactly the records whose id is in the list and
\* in the table, leaves every other record as it was, and returns
\* deleted_count and deleted_ids of exactly those records; it fails with
\* NotFound, deleting nothing, exactly when no id of the list is in the
\* table.
C9_BulkDeleteExact ==
    [][ RequestStep("bulk_delete") =>
          LET matched == Ids \cap Range(last'.issue_ids)
          IN  /\ last'.code \in {200, 404}
              /\ last'.code = 404 <=> matched = {}
              /\ last'.code = 404 => issues' = issues
              /\ last'.code = 200 =>
                    /\ DOMAIN issues' = Ids \ matched
                    /\ \A i \in Ids \ matched : issues'[i] = issues[i]
                    /\ last'.deleted_count = Cardinality(matched)
                    /\ Len(last'.deleted_ids) = Cardinality(matched)
                    /\ Range(last'.deleted_ids) = matched ]_vars

\* C9 witness: a bulkDelete of ids 2 and 3 on a table holding records 1 and
\* 2 deleted record 2 alone and reported it.
C9_Witness ==
    /\ last.op = "bulk_delete"
    /\ last.code = 200
    /\ last.issue_ids = <<2, 3>>
    /\ last.deleted_count = 1
    /\ last.deleted_ids = <<2>>
    /\ Ids = {1}

\* C10: bulkUpdate mutates every record of the table that the id list
\* names, whatever the record's version, raising that version; it skips ids
\* not in the table; it fails with NotFound, changing nothing, exactly when
\* no id of the list is in the table, and never with VersionConflict; it
\* returns updated_count and updated_ids of exactly the matched records.
\* Only an update is answered with VersionConflict.
C10_BulkUpdateUnchecked ==
    [][ /\ RequestStep("bulk_update") =>
              LET matched == Ids \cap Range(last'.issue_ids)
              IN  /\ last'.code \in {200, 404}
                  /\ last'.code = 404 <=> matched = {}
                  /\ last'.code = 404 => issues' = issues
                  /\ last'.code = 200 =>
                        /\ \A i \in matched : issues'[i].version > issues[i].version
                        /\ \A i \in matched : \A f \in BulkGiven(last'.body) :
                              issues'[i][f] = last'.body[f]
                        /\ last'.updated_count = Cardinality(matched)
                        /\ Len(last'.updated_ids) = Cardinality(matched)
                        /\ Range(last'.updated_ids) = matched
        /\ last'.code = 409 => last'.op = "update" ]_vars

\* C10 witness: a bulkUpdate of ids 1 and 2 on a table holding record 1
\* alone, which an earlier update had taken to version 2, updated record 1
\* and reported it.
C10_Witness ==
    /\ last.op = "bulk_update"
    /\ last.code = 200
    /\ last.issue_ids = <<1, 2>>
    /\ last.updated_count = 1
    /\ last.updated_ids = <<1>>
    /\ Ids = {1}
    /\ issues[1].version = 3
    /\ issues[1].priority = Some("critical")

\* The sum of a function's values.
RECURSIVE SumOf(_)
SumOf(f) ==
    IF DOMAIN f = {} THEN 0
    ELSE LET k == CHOOSE k \in DOMAIN f : TRUE
         IN  f[k] + SumOf([j \in DOMAIN f \ {k} |-> f[j]])

\* C11: on every reachable table, stats() holds a count for each of the
\* four statuses and each of the four priorities, the by_status counts and
\* the by_priority counts each sum to total_issues, which is the number of
\* records, and summary() reports the same total, the same four status
\* counts and the same four priority counts; a stats or summary request is
\* answered with exactly these.
C11_StatsSummaryConsistent ==
    LET st == IssueStats(issues)
        su == IssueSummary(issues)
    IN  /\ DOMAIN st.by_status = StatusEnum
        /\ DOMAIN st.by_priority = PriorityEnum
        /\ st.total_issues = Cardinality(Ids)
        /\ SumOf(st.by_status) = st.total_issues
        /\ SumOf(st.by_priority) = st.total_issues
        /\ su.total_issues = st.total_issues
        /\ su.open_issues = st.by_status["open"]
        /\ su.in_progress_issues = st.by_status["in_progress"]
        /\ su.resolved_issues = st.by_status["resolved"]
        /\ su.closed_issues = st.by_status["closed"]
        /\ su.low_priority = st.by_priority["low"]
        /\ su.medium_priority = st.by_priority["medium"]
        /\ su.high_priority = st.by_priority["high"]
        /\ su.critical_priority = st.by_priority["critical"]
        /\ last.op = "stats" => last.response = st
        /\ last.op = "summary" => last.response = su

\* C11 witness: a summary of a table holding an open record of medium
\* priority and a resolved record of high priority reported both.
C11_Witness ==
    /\ last.op = "summary"
    /\ last.response.total_issues = 2
    /\ last.response.open_issues = 1
    /\ last.response.resolved_issues = 1
    /\ last.response.medium_priority = 1
    /\ last.response.high_priority = 1

\* C12: for every table reachable in the store and every order the export
\* may list its records in, importing the exported CSV into an empty store
\* fails for no row and stores, row for row, records whose title,
\* description, status, priority, assignee and reporter equal those of the
\* exported records.
C12_ExportImportRoundTrip ==
    \A o \in OrderBy(issues, Ids) :
        LET rows == [k \in DOMAIN o |-> issues[o[k]]]
            r == import_issues_from_csv(export_issues_to_csv(rows), <<>>, 0, now, {})
        IN  /\ r.failed = 0
            /\ r.successful = Len(rows)
            /\ DOMAIN r.table = DOMAIN rows
            /\ \A k \in DOMAIN rows : \A f \in DataFields : r.table[k][f] = rows[k][f]

\* C13: on every reachable table every record's title is not null, not the
\* empty string and not empty after trimming; a create whose title is empty
\* after trimming is answered with a validation error and adds no record.
C13_TitleNeverEmpty ==
    /\ \A i \in Ids : issues[i].title # None /\ strip(Get(issues[i].title)) # <<>>
    /\ (last.op = "create" /\ strip(last.body.title) = <<>>) => last.code = 422

\* The term occurs in the text, letters without regard to case.
Contains(text, term) ==
    \E i \in 0..(Len(text) - Len(term)) :
        lower(SubSeq(text, i + 1, i + Len(term))) = lower(term)

\* The record satisfies every filter the query supplies (an empty string
\* taken as a filter not supplied).
Satisfies(row, q) ==
    /\ q.status # None => row.status = q.status
    /\ q.priority # None => row.priority = q.priority
    /\ Truthy(q.assignee) => row.assignee = q.assignee
    /\ Truthy(q.search) =>
          \/ Contains(Get(row.title), Get(q.search))
          \/ row.description # None /\ Contains(Get(row.description), Get(q.search))

\* C14: a list response holds only records that satisfy every supplied
\* filter (status, priority and assignee equal to the given values, the
\* search term a case-insensitive substring of title or description), each
\* as it is stored and once; and when the window covers them all, it holds
\* every such record.
C14_ListFilters ==
    (last.op = "list") =>
        LET rows == last.response
            sat == {i \in Ids : Satisfies(issues[i], last.query)}
        IN  /\ \A k \in DOMAIN rows : rows[k].id \in sat /\ rows[k] = issues[rows[k].id]
            /\ \A j, k \in DOMAIN rows : rows[j].id = rows[k].id => j = k
            /\ (last.query.skip = 0 /\ last.query.limit >= Cardinality(sat)) =>
                  {rows[k].id : k \in DOMAIN rows} = sat

\* C15: a list response is ordered by created_at descending, records of
\* equal created_at by id; and two list requests in a row with the same
\* filters and consecutive windows return no record twice, and between them
\* every matching record when the two windows cover them all.
C15_OrderAndPaging ==
    [][ (RequestStep("list")) =>
          LET rows == last'.response
          IN  /\ \A j, k \in DOMAIN rows : j < k =>
                    \/ rows[j].created_at > rows[k].created_at
                    \/ rows[j].created_at = rows[k].created_at /\ rows[j].id < rows[k].id
              /\ (/\ last.op = "list"
                  /\ \A f \in {"status", "priority", "assignee", "search"} :
                        last.query[f] = last'.query[f]
                  /\ last'.query.skip = last.query.skip + last.query.limit) =>
                    LET before == {last.response[k].id : k \in DOMAIN last.response}
                        after == {rows[k].id : k \in DOMAIN rows}
                        all == {i \in Ids : ListFilter(issues[i], last'.query)}
                    IN  /\ before \cap after = {}
                        /\ (last.query.skip = 0
                              /\ Cardinality(all) <= last'.query.skip + last'.query.limit) =>
                              before \cup after = all ]_vars

\* C19: an export holds, under the header id, title, description, status,
\* priority, assignee, reporter, created_at, updated_at, one line per
\* record that the list operation's filters (status, priority, assignee,
\* search) select for the same query, in an order by created_at descending,
\* and no other line; an absent optional field is an empty cell.
C19_ExportAsList ==
    (last.op = "export") =>
        /\ last.response.header = H_export
        /\ \E o \in OrderBy(issues, {i \in Ids : ListFilter(issues[i], last.query)}) :
              last.response.lines = [k \in DOMAIN o |-> ExportRow(issues[o[k]])]
        /\ \A k \in DOMAIN last.response.lines :
              /\ Len(last.response.lines[k]) = Len(H_export)
              /\ \E i \in Ids :
                    /\ last.response.lines[k][1] = str(i)
                    /\ issues[i].description = None => last.response.lines[k][3] = <<>>
                    /\ issues[i].assignee = None => last.response.lines[k][6] = <<>>
                    /\ issues[i].reporter = None => last.response.lines[k][7] = <<>>

\* The ids of the lines of an exported file.
ExportedIds(file) == {file.lines[k][1] : k \in DOMAIN file.lines}

\* C16: getById, update (whatever version it carries) and delete of an id
\* not in the table are answered NotFound and leave the table as it was; a
\* successful delete removes the record and nothing else, so that the same
\* holds of its id from then on; and no list, export or stats response
\* counts or holds a record that is not in the table.
C16_NotFoundAndPermanentDelete ==
    [][ /\ ((RequestStep("get") \/ RequestStep("update") \/ RequestStep("delete"))
              /\ last'.code # 422 /\ last'.id \notin Ids) =>
              (last'.code = 404 /\ issues' = issues)
        /\ (RequestStep("delete") /\ last'.id \in Ids) =>
              /\ last'.code = 204
              /\ DOMAIN issues' = Ids \ {last'.id}
              /\ \A i \in DOMAIN issues' : issues'[i] = issues[i]
        /\ RequestStep("list") =>
              \A k \in DOMAIN last'.response : last'.response[k].id \in DOMAIN issues'
        /\ RequestStep("export") =>
              ExportedIds(last'.response) \subseteq {str(i) : i \in DOMAIN issues'}
        /\ RequestStep("stats") =>
              last'.response.total_issues = Cardinality(DOMAIN issues') ]_vars

\* C16 witness: a getById of an id that was assigned and then deleted was
\* answered NotFound.
C16_Witness ==
    /\ last.op = "get"
    /\ last.code = 404
    /\ last.id <= seq
    /\ last.id \notin Ids

\* C17: every record is stored under its id, so no two records share one;
\* no step changes the id of a record; and every record a step adds gets an
\* id greater than every id assigned before, those of deleted records
\* included, the ids a step adds being the next ones in row.
C17_IdsUniqueMonotone ==
    [][ /\ \A i \in Ids : issues[i].id = i /\ i <= seq
        /\ \A i \in DOMAIN issues' : issues'[i].id = i
        /\ seq' >= seq
        /\ DOMAIN issues' \ Ids = (seq + 1)..seq'
        /\ (RequestStep("create") /\ last'.code = 201) =>
              /\ last'.id = seq'
              /\ \A i \in 1..seq : last'.id > i ]_vars

\* C17 witness: the only record of the table was deleted, and the record
\* created next got the id after the deleted one.
C17_Witness ==
    /\ last.op = "create"
    /\ last.code = 201
    /\ last.id = 2
    /\ Ids = {2}

\* The line fills every column of the header and its title, trimmed, is
\* longer than the store allows.
TitleTooLong(header, cells) ==
    /\ "title" \in Range(header)
    /\ Len(cells) >= Len(header)
    /\ Len(strip(cells[ColumnIndex(header, "title")])) > TitleMaxLen

\* C18: an import of a decodable file returns a result; in it every row
\* whose persisting fails, by a failing commit or by the store's validation
\* of an over-long title, has exactly one error, a "Database error: ...";
\* and the rows stored are exactly the rows without an error.
C18_PersistFailureIsDatabaseError ==
    (last.op = "import") =>
        /\ last.file.utf8 => last.code = 200
        /\ last.code = 200 =>
              LET lines == DataLines(last.file)
                  errors == last.result.errors
              IN  /\ \A i \in DOMAIN lines :
                        \/ TitleTooLong(last.file.header, lines[i])
                        \/ /\ i + 1 \in last.commit_fails
                           /\ Alone(last.file, i, {}).successful = 1
                        => /\ Cardinality(ErrorsOf(errors, i + 1)) = 1
                           /\ \A k \in ErrorsOf(errors, i + 1) : errors[k].error = E_Database
                  /\ last.result.successful =
                        Cardinality({i \in DOMAIN lines : ErrorsOf(errors, i + 1) = {}})

\* C20: when two update requests for the same record, both carrying the
\* version v the record had when they arrived, have both been answered, at
\* most one was answered with success and the other with VersionConflict;
\* the stored version is v plus the number of successes; and every field a
\* successful update set holds the value it set.
C20_NoLostUpdate ==
    (/\ DOMAIN sessions = SessionNames
     /\ \A s \in SessionNames : sessions[s].pc = "done"
     /\ sessions["A"].id = sessions["B"].id
     /\ sessions["A"].id \in Ids
     /\ \A s \in SessionNames : "version" \in DOMAIN sessions[s].body
                                   /\ sessions[s].body.version = Some(1)) =>
        LET id == sessions["A"].id
            won == {s \in SessionNames : sessions[s].code = 200}
        IN  /\ Cardinality(won) <= 1
            /\ \A s \in SessionNames \ won : sessions[s].code = 409
            /\ issues[id].version = 1 + Cardinality(won)
            /\ \A s \in won : \A f \in DOMAIN update_data(sessions[s].body) :
                  issues[id][f] = sessions[s].body[f]

\* C21: on every reachable table, stats().by_assignee holds, for every
\* distinct non-null assignee, the empty string included, an entry with the
\* number of records of that assignee; an "unassigned" entry that counts
\* the records of no assignee (and, sharing its key, those of the assignee
\* "unassigned"); and values that sum to total_issues; a stats request is
\* answered with exactly this.
C21_ByAssignee ==
    LET st == IssueStats(issues)
        Of(a) == Cardinality({i \in Ids : issues[i].assignee = a})
    IN  /\ \A a \in Assignees(issues) \ {S_unassigned} :
              a \in DOMAIN st.by_assignee /\ st.by_assignee[a] = Of(Some(a))
        /\ S_unassigned \in DOMAIN st.by_assignee
        /\ st.by_assignee[S_unassigned] >= Of(None)
        /\ st.by_assignee[S_unassigned] >= Of(Some(S_unassigned))
        /\ SumOf(st.by_assignee) = st.total_issues
        /\ last.op = "stats" => last.response = st

\* C22: no step lowers the version stored under an id; an id that has left
\* the table never holds a record again, and a new record comes under an id
\* never used; every successful update and bulkUpdate raises the version of
\* the records it writes, so that a version once superseded lies below the
\* stored one for good; and an update carrying a version below the stored
\* one, or naming an id not in the table, is answered VersionConflict or
\* NotFound and changes nothing.
C22_SupersededVersionNeverValid ==
    [][ /\ \A i \in Ids \cap DOMAIN issues' : issues'[i].version >= issues[i].version
        /\ \A i \in 1..seq : i \notin Ids => i \notin DOMAIN issues'
        /\ \A i \in DOMAIN issues' \ Ids : i > seq /\ issues'[i].version = 1
        /\ (RequestStep("update") /\ last'.code = 200) =>
              issues'[last'.id].version > issues[last'.id].version
        /\ (RequestStep("bulk_update") /\ last'.code = 200) =>
              \A i \in Ids \cap Range(last'.issue_ids) :
                  issues'[i].version > issues[i].version
        /\ (/\ RequestStep("update")
            /\ last'.code # 422
            /\ "version" \in DOMAIN last'.body
            /\ last'.body.version # None
            /\ \/ last'.id \notin Ids
               \/ Get(last'.body.version) < issues[last'.id].version) =>
              /\ last'.code = IF last'.id \in Ids THEN 409 ELSE 404
              /\ issues' = issues ]_vars

\* C22 witness: an update carrying version 1 reached a record that a
\* bulkUpdate had meanwhile taken to version 2, and was answered
\* VersionConflict.
C22_Witness ==
    /\ last.op = "update"
    /\ last.code = 409
    /\ last.expected = 1
    /\ last.actual = 2
    /\ issues[last.id].priority = Some("critical")
    /\ issues[last.id].assignee = Some(S_bo)

====
